---- MODULE Spec2Model ----
(***************************************************************************)
(* LingoLog (src/index.tsx): the App component's state, its mount effects, *)
(* the analyze / ask-tutor / delete handlers, the model gateway calls in   *)
(* flight, and the localStorage snapshot of the history.                   *)
(***************************************************************************)
EXTENDS Integers, Sequences, FiniteSets, TLC

VARIABLES
    activeTab,    \* App: useState("analyze")
    isAnalyzing,  \* App: useState(false)
    history,      \* App: useState<AnalysisResult[]>([]), a JavaScript value
    qaResult,     \* App: useState<QaResult | null>(null), a JavaScript value
    input,        \* AnalyzeTab: useState("")
    mode,         \* AnalyzeTab: useState('analysis')
    storage,      \* window.localStorage: key -> stored text
    calls,        \* generateContent promises not yet settled, in issue order
    issued,       \* number of gateway calls issued so far
    limit,        \* number of gateway calls this exploration issues at most
    now,          \* the latest value Date.now() has returned
    apiKey,       \* whether process.env.API_KEY is set
    effects,      \* passive effects React still has to run, in order
    queued,       \* the setHistory update of the load effect, until rendered
    crashed       \* a render threw: React has unmounted the tree

vars == <<activeTab, isAnalyzing, history, qaResult, input, mode, storage,
          calls, issued, limit, now, apiKey, effects, queued, crashed>>

\* ------------------------------------------------------------------ bounds

MaxCalls == 2     \* gateway calls issued in one session
MaxClock == 2     \* largest value of Date.now()

\* ------------------------------------------------------- JavaScript values

Undefined == [t |-> "undefined"]
Null      == [t |-> "null"]
Text(ts)  == [t |-> "text", v |-> ts]     \* a string holding JSON text (its tokens)
Num(n)    == [t |-> "number", v |-> n]
Str(s)    == [t |-> "string", v |-> s]
Arr(a)    == [t |-> "array",  v |-> a]
Obj(f)    == [t |-> "object", v |-> f]

EmptyObj == Obj(<<>>)

\* ToBoolean: what `if (x)`, `!x`, `x && y`, `x || y` test
Truthy(x) ==
    CASE x.t \in {"undefined", "null"} -> FALSE
      [] x.t = "number" -> x.v # 0
      [] x.t = "string" -> x.v # ""
      [] x.t = "text" -> x.v # <<>>
      [] OTHER -> TRUE

\* x.k throws a TypeError exactly when x is null or undefined
PropThrows(x) == x.t \in {"undefined", "null"}

\* x.k for a property name k that is not built in
Get(x, k) == IF x.t = "object" /\ k \in DOMAIN x.v THEN x.v[k] ELSE Undefined

\* x.length
Length(x) == IF x.t = "array" THEN Num(Len(x.v)) ELSE Undefined

\* x.map(f), x.flatMap(f), x.filter(f) throw unless x is an array
NotArray(x) == x.t # "array"

\* Number.prototype.toString for the integers the clock takes
NumToString(n) == ToString(n)

\* ToNumber, as `a > b` applies it; NaN is modelled as "no number"
IsNumeric(x) ==
    \/ x.t \in {"number", "null"}
    \/ x.t = "string" /\ \E n \in 0..MaxClock : NumToString(n) = x.v

ToNumber(x) ==
    CASE x.t = "number" -> x.v
      [] x.t = "null" -> 0
      [] OTHER -> CHOOSE n \in 0..MaxClock : NumToString(n) = x.v

\* a > b
Greater(a, b) == IsNumeric(a) /\ IsNumeric(b) /\ ToNumber(a) > ToNumber(b)

\* a === b on the values compared here (primitives)
StrictEq(a, b) == a = b

\* String.prototype.trim on the texts the user types here
Trim(s) ==
    CASE s = " inu" -> "inu"
      [] OTHER -> s

\* -------------------------------------------------------------- JSON text
\* A text is the sequence of its JSON tokens; a string or number token
\* carries its characters.

Punct(c)   == [k |-> "punct", v |-> c]
StrTok(s)  == [k |-> "string", v |-> s]
NumTok(s)  == [k |-> "number", v |-> s]
NullTok    == [k |-> "literal", v |-> "null"]

\* The order in which an object's own keys are written
KeyOrder == <<"language", "translation", "grammarPoints", "vocabulary",
              "pattern", "explanation",
              "word", "reading", "meaning", "partOfSpeech",
              "id", "timestamp", "original">>

RECURSIVE stringify(_), stringifyElements(_), stringifyMembers(_, _)

stringifyElements(a) ==
    IF a = <<>> THEN <<>>
    ELSE LET first == IF Head(a).t = "undefined" THEN <<NullTok>>
                      ELSE stringify(Head(a))
         IN IF Len(a) = 1 THEN first
            ELSE first \o <<Punct(",")>> \o stringifyElements(Tail(a))

stringifyMembers(f, keys) ==
    IF keys = <<>> THEN <<>>
    ELSE LET key == Head(keys)
             rest == stringifyMembers(f, Tail(keys))
         IN IF key \in DOMAIN f /\ f[key].t # "undefined"
            THEN <<StrTok(key), Punct(":")>> \o stringify(f[key])
                 \o (IF rest = <<>> THEN <<>> ELSE <<Punct(",")>> \o rest)
            ELSE rest

\* JSON.stringify(x)
stringify(x) ==
    CASE x.t = "null"   -> <<NullTok>>
      [] x.t = "number" -> <<NumTok(NumToString(x.v))>>
      [] x.t = "string" -> <<StrTok(x.v)>>
      [] x.t = "array"  -> <<Punct("[")>> \o stringifyElements(x.v) \o <<Punct("]")>>
      [] x.t = "object" -> <<Punct("{")>> \o stringifyMembers(x.v, KeyOrder) \o <<Punct("}")>>

SyntaxError == [ok |-> FALSE]
Parsed(x, rest) == [ok |-> TRUE, val |-> x, rest |-> rest]

RECURSIVE parseValue(_), parseElements(_, _), parseMembers(_, _)

parseElements(ts, acc) ==
    LET e == parseValue(ts)
    IN IF ~e.ok \/ e.rest = <<>> THEN SyntaxError
       ELSE IF Head(e.rest) = Punct(",")
            THEN parseElements(Tail(e.rest), Append(acc, e.val))
       ELSE IF Head(e.rest) = Punct("]")
            THEN Parsed(Arr(Append(acc, e.val)), Tail(e.rest))
       ELSE SyntaxError

parseMembers(ts, acc) ==
    IF Len(ts) < 3 \/ ts[1].k # "string" \/ ts[2] # Punct(":") THEN SyntaxError
    ELSE LET e == parseValue(SubSeq(ts, 3, Len(ts)))
             f == (ts[1].v :> e.val) @@ acc
         IN IF ~e.ok \/ e.rest = <<>> THEN SyntaxError
            ELSE IF Head(e.rest) = Punct(",")
                 THEN parseMembers(Tail(e.rest), f)
            ELSE IF Head(e.rest) = Punct("}")
                 THEN Parsed(Obj(f), Tail(e.rest))
            ELSE SyntaxError

parseValue(ts) ==
    IF ts = <<>> THEN SyntaxError
    ELSE LET h == Head(ts)
             r == Tail(ts)
         IN CASE h = NullTok -> Parsed(Null, r)
              [] h.k = "string" -> Parsed(Str(h.v), r)
              [] h.k = "number" ->
                    IF \E n \in 0..MaxClock : NumToString(n) = h.v
                    THEN Parsed(Num(CHOOSE n \in 0..MaxClock : NumToString(n) = h.v), r)
                    ELSE SyntaxError
              [] h = Punct("[") ->
                    IF r # <<>> /\ Head(r) = Punct("]")
                    THEN Parsed(Arr(<<>>), Tail(r))
                    ELSE parseElements(r, <<>>)
              [] h = Punct("{") ->
                    IF r # <<>> /\ Head(r) = Punct("}")
                    THEN Parsed(EmptyObj, Tail(r))
                    ELSE parseMembers(r, <<>>)
              [] OTHER -> SyntaxError

\* JSON.parse(text) throws a SyntaxError
parseThrows(text) ==
    LET p == parseValue(text) IN ~p.ok \/ p.rest # <<>>

\* JSON.parse(text), when it does not throw
parse(text) == parseValue(text).val


\* ------------------------------------------------------------ model data

\* What the user types into the textarea
Inputs == {"", " inu"}

Grammar(p, e) == Obj([pattern |-> Str(p), explanation |-> Str(e)])
Vocab(w, r, m, p) ==
    Obj([word |-> Str(w), reading |-> Str(r), meaning |-> Str(m),
         partOfSpeech |-> Str(p)])

\* Replies that carry every field of the responseSchema
PayloadA ==
    Obj([language |-> Str("Japanese"), translation |-> Str("the cat"),
         grammarPoints |-> Arr(<<Grammar("wa", "topic")>>),
         vocabulary |-> Arr(<<Vocab("neko", "neko-hira", "cat", "noun")>>)])
PayloadB ==
    Obj([language |-> Str("Nihongo"), translation |-> Str("the dog"),
         grammarPoints |-> Arr(<<>>),
         vocabulary |-> Arr(<<Vocab("inu", "inu-hira", "dog", "noun"),
                              Vocab("neko", "neko-kata", "kitty", "meishi")>>)])
ValidPayloads == {PayloadA, PayloadB}

\* Replies that are JSON but not of that shape
PayloadMistyped ==
    Obj([language |-> Str("Japanese"), translation |-> Str("the cat"),
         grammarPoints |-> Str("none"),
         vocabulary |-> Arr(<<Vocab("neko", "neko-hira", "cat", "noun")>>)])
MalformedPayloads == {Null, PayloadMistyped}

\* Text that is not JSON (a reply or a snapshot cut short)
Truncated == <<Punct("["), Punct("{")>>

\* response.text of an analyze call (lines 105-106)
AnalyzeTexts ==
    {Undefined, Text(<<>>), Text(Truncated)}
    \cup {Text(stringify(p)) : p \in ValidPayloads \cup MalformedPayloads}

\* response.text of an ask-tutor call (line 125)
TutorTexts == {Undefined, Str(""), Str("wa marks the topic")}

\* A settled generateContent promise
Rejected == [settled |-> "rejected"]
Fulfilled(text) == [settled |-> "fulfilled", text |-> text]

\* A record as an earlier session wrote it
OldRecord ==
    Obj(PayloadA.v @@ [id |-> Str("0"), timestamp |-> Num(0),
                       original |-> Str("neko")])

historyKey == "lingolog_history"

\* What localStorage may hold when the page opens: nothing, a snapshot an
\* earlier session saved, or text that is not such a snapshot
StoredAtStartup ==
    {<<>>,
     (historyKey :> stringify(Arr(<<>>))),
     (historyKey :> stringify(Arr(<<OldRecord>>))),
     (historyKey :> Truncated),
     (historyKey :> stringify(Null)),
     (historyKey :> stringify(EmptyObj))}

\* localStorage.getItem(key)
getItem(key) == IF key \in DOMAIN storage THEN Text(storage[key]) ELSE Null

\* localStorage after setItem(key, text)
setItem(key, text) == (key :> text) @@ storage


\* ---------------------------------------------------------------- render
\* A render throws where the JSX reads a property of null or undefined,
\* calls map on something that is no array, or places a plain object as a
\* React child. Notebook entries stay collapsed (expandedId is null) and the
\* dictionary's search term stays "".

Elems(x) == {x.v[i] : i \in DOMAIN x.v}

RECURSIVE ChildThrows(_)
\* {x} in JSX: React rejects a plain object as a child
ChildThrows(x) ==
    \/ x.t = "object"
    \/ x.t = "array" /\ \E e \in Elems(x) : ChildThrows(e)

\* App, line 704: history.length > 0 ? history[0] : null
lastResult(hist) == IF Greater(Length(hist), Num(0)) THEN hist.v[1] ELSE Null

\* AnalyzeTab, line 256
showQa(qa, last) ==
    Truthy(qa) /\ (~Truthy(last) \/ Greater(Get(qa, "timestamp"), Get(last, "timestamp")))

\* AnalyzeTab, lines 339-364: the tutor answer card
QaCardThrows(qa) ==
    \/ ChildThrows(Get(qa, "question"))
    \/ Get(qa, "answer").t # "string"

\* AnalyzeTab, lines 366-448: the result card
ResultCardThrows(r) ==
    \/ \E k \in {"language", "original", "translation"} : ChildThrows(Get(r, k))
    \/ NotArray(Get(r, "grammarPoints"))
    \/ \E point \in Elems(Get(r, "grammarPoints")) :
          \/ PropThrows(point)
          \/ \E k \in {"pattern", "explanation"} : ChildThrows(Get(point, k))
    \/ NotArray(Get(r, "vocabulary"))
    \/ \E vocab \in Elems(Get(r, "vocabulary")) :
          \/ PropThrows(vocab)
          \/ \E k \in {"word", "reading", "meaning", "partOfSpeech"} :
                ChildThrows(Get(vocab, k))

AnalyzeTabThrows(hist, qa) ==
    LET last == lastResult(hist)
    IN IF showQa(qa, last) THEN QaCardThrows(qa)
       ELSE Truthy(last) /\ ResultCardThrows(last)

\* NotebookTab, lines 456-538
NotebookTabThrows(items) ==
    /\ ~StrictEq(Length(items), Num(0))
    /\ \/ NotArray(items)
       \/ \E item \in Elems(items) :
             \/ PropThrows(item)
             \/ \E k \in {"original", "translation"} : ChildThrows(Get(item, k))

RECURSIVE flatVocab(_)
\* DictionaryTab, line 547: every item's vocabulary, tagged with its language
flatVocab(items) ==
    IF items = <<>> THEN <<>>
    ELSE LET item == Head(items)
             vs == Get(item, "vocabulary").v
         IN [i \in DOMAIN vs |->
                Obj([language |-> Get(item, "language")] @@
                    (IF vs[i].t = "object" THEN vs[i].v ELSE <<>>))]
            \o flatVocab(Tail(items))

RECURSIVE dedupeLastWins(_, _)
\* Faulty variant: a later entry of a word replaces the one kept so far
dedupeLastWins(entries, acc) ==
    IF entries = <<>> THEN acc
    ELSE LET curr == Head(entries)
         IN dedupeLastWins(Tail(entries),
              IF \E i \in DOMAIN acc : StrictEq(Get(acc[i], "word"), Get(curr, "word"))
              THEN [i \in DOMAIN acc |->
                      IF StrictEq(Get(acc[i], "word"), Get(curr, "word"))
                      THEN curr ELSE acc[i]]
              ELSE Append(acc, curr))

RECURSIVE dedupe(_, _)
\* DictionaryTab, lines 548-553: the first entry of each word is kept
dedupe(entries, acc) ==
    IF entries = <<>> THEN acc
    ELSE LET curr == Head(entries)
         IN dedupe(Tail(entries),
                   IF \E i \in DOMAIN acc : StrictEq(Get(acc[i], "word"), Get(curr, "word"))
                   THEN acc ELSE Append(acc, curr))

\* The words of the replies, in the order localeCompare puts them
WordOrder == <<"inu", "neko">>

\* a.word.localeCompare(b.word), line 554: negative, zero or positive
localeCompare(a, b) ==
    LET rank(w) == CHOOSE i \in DOMAIN WordOrder : WordOrder[i] = w.v
    IN rank(a) - rank(b)

RECURSIVE insertByWord(_, _)
\* e placed after every entry that does not compare greater (sort is stable)
insertByWord(e, sorted) ==
    IF sorted = <<>> THEN <<e>>
    ELSE IF localeCompare(Get(Head(sorted), "word"), Get(e, "word")) <= 0
         THEN <<Head(sorted)>> \o insertByWord(e, Tail(sorted))
         ELSE <<e>> \o sorted

RECURSIVE sortByWord(_, _)
\* DictionaryTab, line 554: .sort((a, b) => a.word.localeCompare(b.word))
sortByWord(entries, acc) ==
    IF entries = <<>> THEN acc
    ELSE sortByWord(Tail(entries), insertByWord(Head(entries), acc))

\* DictionaryTab, lines 546-554
allVocab(items) == sortByWord(dedupe(flatVocab(items), <<>>), <<>>)

\* DictionaryTab, lines 546-621
DictionaryTabThrows(items) ==
    \/ NotArray(items)
    \/ \E item \in Elems(items) :
          PropThrows(item) \/ NotArray(Get(item, "vocabulary"))
    \/ LET found == dedupe(flatVocab(items.v), <<>>)
       IN \/ \E i \in DOMAIN found : Get(found[i], "word").t # "string"
          \/ LET all == allVocab(items.v)
             IN \E i \in DOMAIN all :
                   \E k \in {"reading", "meaning", "partOfSpeech"} :
                      ChildThrows(Get(all[i], k))

\* App, lines 694-720: whether rendering this state throws
RenderThrows(tab, hist, qa) ==
    \/ PropThrows(hist)
    \/ tab = "analyze" /\ AnalyzeTabThrows(hist, qa)
    \/ tab = "notebook" /\ NotebookTabThrows(hist)
    \/ tab = "dictionary" /\ DictionaryTabThrows(hist)


\* ----------------------------------------------------------------- state

Tabs == {"analyze", "notebook", "dictionary"}
Modes == {"analysis", "qa"}
NoUpdate == [set |-> FALSE]

InitWith(l) ==
    /\ limit = l
    /\ activeTab = "analyze"
    /\ isAnalyzing = FALSE
    /\ history = Arr(<<>>)
    /\ qaResult = Null
    /\ input = ""
    /\ mode = "analysis"
    /\ storage \in StoredAtStartup
    /\ calls = <<>>
    /\ issued = 0
    /\ now = 1                          \* OldRecord was made at 0, before this session
    /\ apiKey \in BOOLEAN
    /\ effects = <<"load", "save">>     \* the two useEffect of App, after the first render
    /\ queued = NoUpdate
    /\ crashed = FALSE

Init == InitWith(MaxCalls)

\* React runs pending passive effects and renders before it handles an event
Idle == ~crashed /\ effects = <<>> /\ ~queued.set

Remove(seq, i) == [j \in 1..(Len(seq) - 1) |-> IF j < i THEN seq[j] ELSE seq[j + 1]]

\* ------------------------------------------------------- mount and effects

\* App, lines 632-641
LoadEffect ==
    /\ ~crashed /\ effects # <<>> /\ Head(effects) = "load"
    /\ LET saved == getItem(historyKey)
       IN queued' = IF Truthy(saved) /\ ~parseThrows(saved.v)
                    THEN [set |-> TRUE, val |-> parse(saved.v)]
                    ELSE queued
    /\ effects' = Tail(effects)
    /\ UNCHANGED <<activeTab, isAnalyzing, history, qaResult, input, mode, storage,
                   calls, issued, now, apiKey, limit, crashed>>

\* Faulty variant: an empty history is not written
SaveEffectSkipsEmpty ==
    /\ ~crashed /\ effects # <<>> /\ Head(effects) = "save"
    /\ storage' = IF history = Arr(<<>>) /\ historyKey \in DOMAIN storage
                  THEN storage ELSE setItem(historyKey, stringify(history))
    /\ effects' = Tail(effects)
    /\ UNCHANGED <<activeTab, isAnalyzing, history, qaResult, input, mode,
                   calls, issued, now, apiKey, limit, queued, crashed>>

\* App, lines 644-646
SaveEffect ==
    /\ ~crashed /\ effects # <<>> /\ Head(effects) = "save"
    /\ storage' = setItem(historyKey, stringify(history))
    /\ effects' = Tail(effects)
    /\ UNCHANGED <<activeTab, isAnalyzing, history, qaResult, input, mode,
                   calls, issued, now, apiKey, limit, queued, crashed>>

\* The render that follows the mount effects: setHistory of line 636 applies
Render ==
    /\ ~crashed /\ effects = <<>> /\ queued.set
    /\ history' = queued.val
    /\ queued' = NoUpdate
    /\ crashed' = RenderThrows(activeTab, history', qaResult)
    /\ effects' = IF crashed' THEN <<>> ELSE <<"save">>
    /\ UNCHANGED <<activeTab, isAnalyzing, qaResult, input, mode, storage,
                   calls, issued, now, apiKey, limit>>

\* ------------------------------------------------------------ view events

\* Nav, line 187; AnalyzeTab's own state lives only while it is mounted
setActiveTab(tab) ==
    /\ Idle /\ tab # activeTab
    /\ activeTab' = tab
    /\ input' = IF activeTab = "analyze" THEN "" ELSE input
    /\ mode' = IF activeTab = "analyze" THEN "analysis" ELSE mode
    /\ crashed' = RenderThrows(tab, history, qaResult)
    /\ UNCHANGED <<isAnalyzing, history, qaResult, storage, calls, issued, now,
                   apiKey, limit, effects, queued>>

\* AnalyzeTab, lines 286-296: the textarea is disabled while isAnalyzing
setInput(s) ==
    /\ Idle /\ activeTab = "analyze" /\ ~isAnalyzing /\ s # input
    /\ input' = s
    /\ UNCHANGED <<activeTab, isAnalyzing, history, qaResult, mode, storage,
                   calls, issued, now, apiKey, limit, effects, queued, crashed>>

\* AnalyzeTab, lines 265-282
setMode(m) ==
    /\ Idle /\ activeTab = "analyze" /\ m # mode
    /\ mode' = m
    /\ UNCHANGED <<activeTab, isAnalyzing, history, qaResult, input, storage,
                   calls, issued, now, apiKey, limit, effects, queued, crashed>>

\* ------------------------------------------------------ issuing the calls

\* A pending call: the handler's arguments, the context it read before the
\* await, and the history of the render whose handler was called
Call(op, text, context) ==
    [op |-> op, text |-> text, context |-> context, seen |-> history]

\* Faulty variant: setIsAnalyzing(false) at the end of the try block, no finally
busyAfterNoFinally(failed) == failed /\ isAnalyzing

\* App, lines 663-665: finally { setIsAnalyzing(false) }
busyAfter(failed) == FALSE

\* App, lines 648-651 with getAI (54-58): up to the await. Without a key
\* getAI throws: catch and finally run before any other event.
handleAnalyze(text) ==
    IF apiKey
    THEN /\ isAnalyzing' = TRUE
         /\ calls' = Append(calls, Call("analyze", text, Undefined))
         /\ issued' = issued + 1
    ELSE /\ isAnalyzing' = busyAfter(TRUE)
         /\ UNCHANGED <<calls, issued>>

\* Faulty variant: the oldest record's sentence is taken
contextOfLast(hist) ==
    IF Greater(Length(hist), Num(0)) THEN Get(hist.v[Len(hist.v)], "original")
    ELSE Undefined

\* App, line 671
contextOf(hist) ==
    IF Greater(Length(hist), Num(0)) THEN Get(hist.v[1], "original") ELSE Undefined

\* App, lines 668-672 with getAI: up to the await. Reading history[0].original
\* throws when history[0] is null; that and a missing key end in the catch.
handleAskTutor(question) ==
    IF apiKey /\ ~(Greater(Length(history), Num(0)) /\ PropThrows(history.v[1]))
    THEN /\ isAnalyzing' = TRUE
         /\ calls' = Append(calls, Call("ask", question, contextOf(history)))
         /\ issued' = issued + 1
    ELSE /\ isAnalyzing' = busyAfter(TRUE)
         /\ UNCHANGED <<calls, issued>>

\* AnalyzeTab, line 313: the submit button's disabled attribute
submitDisabled == Trim(input) = "" \/ isAnalyzing

\* AnalyzeTab, lines 245-254, reached through the submit button
handleSubmit ==
    /\ Idle /\ activeTab = "analyze" /\ ~submitDisabled /\ issued < limit
    /\ IF Trim(input) = "" THEN UNCHANGED <<isAnalyzing, calls, issued>>
       ELSE IF mode = "analysis" THEN handleAnalyze(input)
       ELSE handleAskTutor(input)
    /\ UNCHANGED <<activeTab, history, qaResult, input, mode, storage, now,
                   apiKey, limit, effects, queued, crashed>>

\* AnalyzeTab, lines 355-362: the button is rendered with the tutor answer
returnShown ==
    /\ activeTab = "analyze"
    /\ showQa(qaResult, lastResult(history))
    /\ Truthy(Get(qaResult, "relatedSentence"))

\* AnalyzeTab, line 357
clickReturn ==
    /\ Idle /\ returnShown /\ issued < limit
    /\ handleAnalyze(Get(qaResult, "relatedSentence").v)
    /\ UNCHANGED <<activeTab, history, qaResult, input, mode, storage, now,
                   apiKey, limit, effects, queued, crashed>>


\* ------------------------------------------------------ settling the calls

AnalyzeOutcomes == {Rejected} \cup {Fulfilled(t) : t \in AnalyzeTexts}
TutorOutcomes == {Rejected} \cup {Fulfilled(t) : t \in TutorTexts}

\* analyzeSentence, lines 63-108: the awaited call throws
analyzeFails(outcome) ==
    \/ outcome.settled = "rejected"
    \/ ~Truthy(outcome.text)
    \/ parseThrows(outcome.text.v)

\* {...x}: the own enumerable properties of x
Spread(x) == IF x.t = "object" THEN x.v ELSE <<>>

\* Date.now() does not go back: the readings a handler can take next
Readings == {r \in (now..MaxClock) \X (now..MaxClock) : r[2] \in {r[1], r[1] + 1}}

\* Faulty variant: the record keeps the trimmed text
fullResultTrimmed(result, text, t1, t2) ==
    Obj([id |-> Str(NumToString(t1)), timestamp |-> Num(t2), original |-> Str(Trim(text))]
        @@ Spread(result))

\* App, lines 652-657; t1 and t2 are the two readings of Date.now()
fullResult(result, text, t1, t2) ==
    Obj([id |-> Str(NumToString(t1)), timestamp |-> Num(t2), original |-> Str(text)]
        @@ Spread(result))

\* Faulty variant: a sentence analysed before has its record replaced
prependUpsert(rec, prev) ==
    IF \E i \in DOMAIN prev.v : Get(prev.v[i], "original") = Get(rec, "original")
    THEN Arr([i \in DOMAIN prev.v |->
                IF Get(prev.v[i], "original") = Get(rec, "original")
                THEN rec ELSE prev.v[i]])
    ELSE Arr(<<rec>> \o prev.v)

\* Faulty variant: prev => [...prev, fullResult]
prependAtEnd(rec, prev) == Arr(Append(prev.v, rec))

\* App, line 659: prev => [fullResult, ...prev]
prepend(rec, prev) == Arr(<<rec>> \o prev.v)

\* [...prev] throws unless prev is iterable
NotIterable(x) == x.t \notin {"array", "string"}

\* App, lines 651-665: from the settled await to the end of the handler
analyzeSettle(i, outcome, t1, t2) ==
    /\ Idle /\ i \in DOMAIN calls /\ calls[i].op = "analyze"
    /\ <<t1, t2>> \in Readings
    /\ calls' = Remove(calls, i)
    /\ isAnalyzing' = busyAfter(analyzeFails(outcome))
    /\ IF analyzeFails(outcome)
       THEN UNCHANGED <<history, now, effects, crashed>>
       ELSE LET rec == fullResult(parse(outcome.text.v), calls[i].text, t1, t2)
            IN /\ now' = t2
               /\ history' = IF NotIterable(history) THEN history
                             ELSE prepend(rec, history)
               /\ crashed' = (NotIterable(history)
                              \/ RenderThrows(activeTab, history', qaResult))
               /\ effects' = IF crashed' THEN <<>> ELSE <<"save">>
    /\ UNCHANGED <<activeTab, qaResult, input, mode, storage, issued, apiKey, limit, queued>>

\* askTutor, line 125
answerOf(text) == IF Truthy(text) THEN text ELSE Str("I couldn't generate an answer.")

\* App, lines 673-679; a property holding undefined reads like a missing one
newQaResult(question, answer, context, t1, t2) ==
    Obj([id |-> Str(NumToString(t1)), timestamp |-> Num(t2),
         question |-> Str(question), answer |-> answer]
        @@ (IF context.t = "undefined" THEN <<>> ELSE [relatedSentence |-> context]))

\* App, lines 672-685: from the settled await to the end of the handler
askSettle(i, outcome, t1, t2) ==
    /\ Idle /\ i \in DOMAIN calls /\ calls[i].op = "ask"
    /\ <<t1, t2>> \in Readings
    /\ calls' = Remove(calls, i)
    /\ isAnalyzing' = busyAfter(outcome.settled = "rejected")
    /\ IF outcome.settled = "rejected"
       THEN UNCHANGED <<qaResult, now, crashed>>
       ELSE /\ now' = t2
            /\ qaResult' = newQaResult(calls[i].text, answerOf(outcome.text),
                                       calls[i].context, t1, t2)
            /\ crashed' = RenderThrows(activeTab, history, qaResult')
    /\ UNCHANGED <<activeTab, history, input, mode, storage, issued, apiKey, limit,
                   effects, queued>>

\* ----------------------------------------------------------------- delete

\* App, line 690: prev => prev.filter(item => item.id !== id)
removeId(prev, id) ==
    Arr(SelectSeq(prev.v, LAMBDA item : ~StrictEq(Get(item, "id"), id)))

\* NotebookTab, line 491: the ids the trash buttons pass
shownIds == IF activeTab = "notebook" /\ history.t = "array"
            THEN {Get(item, "id") : item \in Elems(history)} ELSE {}

\* App, lines 688-692; ok is the answer to confirm()
handleDelete(id, ok) ==
    /\ Idle /\ id \in shownIds
    /\ IF ok
       THEN /\ history' = removeId(history, id)
            /\ crashed' = RenderThrows(activeTab, history', qaResult)
            /\ effects' = IF crashed' THEN <<>> ELSE <<"save">>
       ELSE UNCHANGED <<history, crashed, effects>>
    /\ UNCHANGED <<activeTab, isAnalyzing, qaResult, input, mode, storage, calls,
                   issued, now, apiKey, limit, queued>>

\* ---------------------------------------------------------- specification

Next ==
    \/ LoadEffect
    \/ SaveEffect
    \/ Render
    \/ \E tab \in Tabs : setActiveTab(tab)
    \/ \E s \in Inputs : setInput(s)
    \/ \E m \in Modes : setMode(m)
    \/ handleSubmit
    \/ clickReturn
    \/ \E i \in DOMAIN calls, o \in AnalyzeOutcomes, r \in Readings :
          analyzeSettle(i, o, r[1], r[2])
    \/ \E i \in DOMAIN calls, o \in TutorOutcomes, r \in Readings :
          askSettle(i, o, r[1], r[2])
    \/ \E id \in shownIds, ok \in BOOLEAN : handleDelete(id, ok)

Spec == Init /\ [][Next]_vars

\* The same program, explored one call further
InitLong == InitWith(MaxCalls + 1)
SpecLong == InitLong /\ [][Next]_vars


\* ----------------------------------------------------------------- claims

PayloadKeys == {"language", "translation", "grammarPoints", "vocabulary"}

\* C1: at most one analyze or ask-tutor call is in flight at any time.
C1_AtMostOneInFlight == Len(calls) <= 1

\* C2: when the analysis of text T settles with a reply that is the JSON of a
\* valid payload P, the history is one record longer and its first record has
\* original = T and language, translation, grammarPoints and vocabulary
\* equal to P's.
C2_AppendExact ==
    [][(history.t = "array" /\ calls' # calls /\ history' # history)
       => \A i \in DOMAIN calls, P \in ValidPayloads, r \in Readings :
             analyzeSettle(i, Fulfilled(Text(stringify(P))), r[1], r[2])
             => /\ Len(history'.v) = Len(history.v) + 1
                /\ Get(history'.v[1], "original") = Str(calls[i].text)
                /\ \A k \in PayloadKeys : Get(history'.v[1], k) = P.v[k]]_vars

\* the save effect of an append is due: the stored snapshot is the history
\* without its first record
C2_Witness ==
    /\ history.t = "array" /\ Len(history.v) >= 2
    /\ Get(history.v[1], "original") = Str(" inu")
    /\ \A k \in PayloadKeys : Get(history.v[1], k) = PayloadB.v[k]
    /\ effects = <<"save">>
    /\ parse(storage[historyKey]) = Arr(Tail(history.v))

IdsOf(hist) == {Get(item, "id") : item \in Elems(hist)}
ClockIds == {Str(NumToString(n)) : n \in 0..MaxClock}

\* C3: a confirmed delete of an id that is present shortens the history by
\* exactly one record and leaves no record with that id; removing an id that
\* is not present changes nothing.
C3_DeleteRemovesOne ==
    [][/\ \A id \in shownIds :
             handleDelete(id, TRUE)
             => /\ Len(history'.v) = Len(history.v) - 1
                /\ id \notin IdsOf(history')
       /\ history.t = "array"
          => \A id \in ClockIds \ IdsOf(history) : removeId(history, id) = history]_vars

\* C4, as stated: when an analysis call fails, the history is what it was
\* when the call was issued, and isAnalyzing is false afterwards.
C4_HistoryAsAtIssue ==
    [][calls' # calls
       => \A i \in DOMAIN calls, o \in AnalyzeOutcomes, r \in Readings :
             (analyzeFails(o) /\ analyzeSettle(i, o, r[1], r[2]))
             => history' = calls[i].seen /\ ~isAnalyzing']_vars

\* C4, amended: handling a failed analysis call (no key, a rejected call, an
\* empty or unparseable reply) leaves the history as the handler found it,
\* and isAnalyzing is false afterwards.
C4_FailureLeavesHistory ==
    [][/\ calls' # calls
          => \A i \in DOMAIN calls, o \in AnalyzeOutcomes, r \in Readings :
                (analyzeFails(o) /\ analyzeSettle(i, o, r[1], r[2]))
                => history' = history /\ ~isAnalyzing'
       /\ (~apiKey /\ (handleSubmit \/ clickReturn))
             => history' = history /\ ~isAnalyzing']_vars

C4_Witness ==
    /\ Idle /\ apiKey /\ issued = 1 /\ calls = <<>> /\ ~isAnalyzing
    /\ mode = "analysis" /\ input = " inu" /\ qaResult = Null
    /\ history = Arr(<<OldRecord>>)

\* C5: every record in the history has language and translation and has
\* grammarPoints and vocabulary that are sequences: a reply that is not of
\* the declared shape appends nothing.
C5_RecordsWellFormed ==
    (~crashed /\ history.t = "array")
    => \A rec \in Elems(history) :
          /\ Get(rec, "language").t = "string"
          /\ Get(rec, "translation").t = "string"
          /\ Get(rec, "grammarPoints").t = "array"
          /\ Get(rec, "vocabulary").t = "array"

\* C6: once the save effect of the latest mutation has run, the text stored
\* under the one key 'lingolog_history' parses to the in-memory history.
C6_StoredEqualsHistory ==
    Idle => /\ DOMAIN storage = {historyKey}
            /\ ~parseThrows(storage[historyKey])
            /\ parse(storage[historyKey]) = history

C6_Witness ==
    /\ Idle /\ history.t = "array" /\ Len(history.v) = 1
    /\ Get(history.v[1], "original") = Str(" inu")
    /\ issued >= 2
    /\ storage[historyKey] = stringify(history)

IsRecordSeq(x) == x.t = "array" /\ \A e \in Elems(x) : e.t = "object"

\* C7: a snapshot that cannot be deserialized into a sequence of analysis
\* records leaves the history empty, and the load crashes nothing.
C7_CorruptLoadsEmpty ==
    [][/\ (LoadEffect /\ Truthy(getItem(historyKey)) /\ parseThrows(storage[historyKey]))
          => ~queued'.set
       /\ (Render /\ ~IsRecordSeq(queued.val))
          => history' = Arr(<<>>) /\ ~crashed']_vars

\* C8: no two records of the history have the same id.
C8_UniqueIds ==
    (~crashed /\ history.t = "array")
    => \A i, j \in DOMAIN history.v :
          i # j => Get(history.v[i], "id") # Get(history.v[j], "id")

RECURSIVE IsSubseq(_, _)
\* a is b with some elements left out
IsSubseq(a, b) ==
    IF a = <<>> THEN TRUE
    ELSE IF b = <<>> THEN FALSE
    ELSE IF Head(a) = Head(b) THEN IsSubseq(Tail(a), Tail(b))
    ELSE IsSubseq(a, Tail(b))

\* C9: any step after the load either puts one record in front of the
\* history or leaves records out of it: the records kept are the same
\* values in the same order.
C9_NeverEditedInPlace ==
    [][(history.t = "array" /\ ~queued.set)
       => /\ history'.t = "array"
          /\ \/ IsSubseq(history'.v, history.v)
             \/ history'.v # <<>> /\ Tail(history'.v) = history.v]_vars

\* the save effect of a delete is due: the stored snapshot still holds the
\* record deleted from between two that are kept
C9_Witness ==
    /\ history.t = "array" /\ Len(history.v) = 2
    /\ activeTab = "notebook" /\ effects = <<"save">>
    /\ LET old == parse(storage[historyKey]).v
       IN Len(old) = 3 /\ history.v = <<old[1], old[3]>>

\* C10: the timestamps of the history never increase from the first record
\* to the last.
C10_NewestFirst ==
    history.t = "array"
    => \A i, j \in DOMAIN history.v :
          i < j => /\ Get(history.v[i], "timestamp").t = "number"
                   /\ Get(history.v[j], "timestamp").t = "number"
                   /\ Get(history.v[i], "timestamp").v >= Get(history.v[j], "timestamp").v

C10_Witness ==
    /\ history.t = "array" /\ Len(history.v) >= 2
    /\ Get(history.v[1], "timestamp").v > Get(history.v[2], "timestamp").v

\* C11: when the model returns empty or absent text for a tutor question the
\* operation fails: no tutor answer is created, qaResult stays as it was.
C11_EmptyAnswerFails ==
    [][calls' # calls =>
         \A i \in DOMAIN calls, r \in Readings :
            \A text \in {t \in TutorTexts : ~Truthy(t)} :
               askSettle(i, Fulfilled(text), r[1], r[2]) => qaResult' = qaResult]_vars

\* The most recent record's sentence at the moment call c was issued
SentenceAtIssue(c) ==
    IF c.seen.t = "array" /\ c.seen.v # <<>>
    THEN Get(c.seen.v[1], "original") ELSE Undefined

\* C12: a tutor answer's relatedSentence is the original text of the most
\* recent record at the moment the question was submitted, absent when there
\* was none, and that sentence is the context sent to the model.
C12_RelatedSentence ==
    [][calls' # calls =>
         \A i \in DOMAIN calls, o \in TutorOutcomes, r \in Readings :
            (askSettle(i, o, r[1], r[2]) /\ o.settled = "fulfilled")
            => /\ Get(qaResult', "relatedSentence") = SentenceAtIssue(calls[i])
               /\ calls[i].context = SentenceAtIssue(calls[i])
               /\ Get(qaResult', "question") = Str(calls[i].text)]_vars

C12_Witness ==
    /\ ~crashed /\ history.t = "array" /\ Len(history.v) = 2
    /\ Get(history.v[1], "original") = Str(" inu")
    /\ Get(history.v[2], "original") = Str("neko")
    /\ Get(qaResult, "relatedSentence") = Str(" inu")
    /\ Get(qaResult, "answer") = Str("wa marks the topic")

\* C12, the other case: asked with an empty history, answered without a
\* related sentence
C12_WitnessAbsent ==
    /\ ~crashed /\ history = Arr(<<>>)
    /\ qaResult.t = "object" /\ "relatedSentence" \notin DOMAIN qaResult.v

\* The histories the dictionary can be derived from: records whose
\* vocabulary is a sequence of entries with a word
VocabDefined(hist) ==
    /\ hist.t = "array"
    /\ \A item \in Elems(hist) :
          /\ Get(item, "vocabulary").t = "array"
          /\ \A v \in Elems(Get(item, "vocabulary")) : Get(v, "word").t = "string"

\* The words of record k of hist
WordsOf(hist, k) ==
    {Get(v, "word") : v \in Elems(Get(hist.v[k], "vocabulary"))}

\* C13: the derived vocabulary list has no two entries with the same word,
\* and the entry of a word carries the reading, meaning, part of speech and
\* language of the record nearest the front of the history that has the word.
C13_VocabNewestWins ==
    VocabDefined(history)
    => LET all == allVocab(history.v)
       IN /\ \A i, j \in DOMAIN all :
                i # j => Get(all[i], "word") # Get(all[j], "word")
          /\ \A i \in DOMAIN all :
                \E k \in DOMAIN history.v :
                   /\ \A older \in 1..(k - 1) :
                         Get(all[i], "word") \notin WordsOf(history, older)
                   /\ Get(all[i], "language") = Get(history.v[k], "language")
                   /\ \E v \in Elems(Get(history.v[k], "vocabulary")) :
                         \A f \in {"word", "reading", "meaning", "partOfSpeech"} :
                            Get(all[i], f) = Get(v, f)

C13_Witness ==
    /\ ~crashed /\ activeTab = "dictionary" /\ VocabDefined(history)
    /\ Len(history.v) = 2
    /\ Str("neko") \in WordsOf(history, 1) \cap WordsOf(history, 2)
    /\ Get(history.v[1], "language") = Str("Nihongo")
    /\ Get(history.v[2], "language") = Str("Japanese")
    /\ LET all == allVocab(history.v)
       IN /\ Len(all) = 2
          /\ Get(all[1], "word") = Str("inu")
          /\ Get(all[2], "reading") = Str("neko-kata")
          /\ Get(all[2], "language") = Str("Nihongo")

\* C14: a valid snapshot with at least one record found at mount is what
\* storage holds at every step until the load has taken effect; the save
\* step never overwrites it with an empty history in between.
C14_SnapshotKept ==
    (queued.set /\ IsRecordSeq(queued.val) /\ queued.val.v # <<>>)
    => /\ historyKey \in DOMAIN storage
       /\ ~parseThrows(storage[historyKey])
       /\ parse(storage[historyKey]) = queued.val

\* C15: a delete confirmed while an analysis is in flight removes the
\* record deleted and no other, and the analysis, when it succeeds, puts its
\* record in front of the history as the delete left it: the deleted record
\* does not come back and no other record is lost.
C15_NoLostUpdate ==
    [][/\ (history' # history /\ calls' = calls
           /\ \E i \in DOMAIN calls : calls[i].op = "analyze")
          => \A id \in shownIds :
                handleDelete(id, TRUE)
                => \E k \in DOMAIN history.v :
                      /\ Get(history.v[k], "id") = id
                      /\ history'.v = Remove(history.v, k)
       /\ (history' # history /\ calls' # calls)
          => \A i \in DOMAIN calls, o \in AnalyzeOutcomes, r \in Readings :
                (analyzeSettle(i, o, r[1], r[2]) /\ ~crashed')
                => /\ Tail(history'.v) = history.v
                   /\ Get(history'.v[1], "original") = Str(calls[i].text)]_vars

====
